---- MODULE Spec2Model ----
(***************************************************************************)
(* HW/SW parity checker of the fixed-point EMA crossover strategy          *)
(* (python_version/check_match.py, python_version/crossover_strategy.py).  *)
(*                                                                         *)
(* Three specifications share the module:                                  *)
(*   Spec      one run of check_match.main: software trace, hardware log,  *)
(*             merge, report, exit status;                                 *)
(*   SpecEma   the loop of ema_q16, one sample per step, over every        *)
(*             machine word and every shift;                               *)
(*   SpecHold  the loop of ema_q16 fed a first sample and then one         *)
(*             constant input for ever (weakly fair: the loop runs on).    *)
(*                                                                         *)
(* numpy's int64 is modelled by a two's-complement word of WordBits bits:  *)
(* the arithmetic is the same, the word is narrower so that TLC can        *)
(* enumerate every value of it.                                            *)
(***************************************************************************)
EXTENDS Integers, Sequences, FiniteSets

\* ------------------------------------------------------------- bounds ---
\* Width of the modelled machine word (int64 in the source, scaled down).
WordBits == 4
\* Largest shift SpecEma and SpecHold try (0 .. MaxShift).
MaxShift == 2
\* Longest price sequence SpecEma feeds to one ema_q16 loop.
MaxTicks == 3
\* Longest price sequence (rows of ticks.csv) a run of main reads.
MaxPrices == 2
\* Longest hardware log (lines of hw_log.txt) a run of main reads.
MaxLines == 3

\* ---------------------------------------------------------- constants ---
FAST_SH == 1
SLOW_SH == 6

RECURSIVE Pow2(_)
Pow2(k) == IF k = 0 THEN 1 ELSE 2 * Pow2(k - 1)

MinWord == -Pow2(WordBits - 1)
MaxWord == Pow2(WordBits - 1) - 1
Word == MinWord .. MaxWord
Shifts == 0 .. MaxShift

\* The prices a run of main may read: a few words around zero, so that the
\* fast and the slow average cross in both directions and also tie.
PriceSet == {0, 3}
\* The 2-bit signal code of a log line.
Codes == 0 .. 3
\* Tick numbers a log line may carry: software ticks and, for a short price
\* sequence, ticks the software trace does not have.
LogTicks == 1 .. 3

\* ------------------------------------------------- int64 arithmetic ---
\* Two's-complement wrap-around of numpy's int64 scalar arithmetic.
Wrap(v) == ((v - MinWord) % Pow2(WordBits)) + MinWord

\* A mutant of Asr: division truncating toward zero.
AsrTruncating(d, sh) == IF d >= 0 THEN d \div Pow2(sh) ELSE -((-d) \div Pow2(sh))

\* A mutant of Asr: a left shift.
AsrLeftShift(d, sh) == d * Pow2(sh)

\* x >> sh on a signed word: the sign bit is shifted in. A non-negative d
\* loses its low bits; a negative d is the complement of the shifted
\* complement, ~((~d) >> sh) with ~d = -d - 1 >= 0.
Asr(d, sh) == IF d >= 0 THEN d \div Pow2(sh) ELSE -(((-d) - 1) \div Pow2(sh)) - 1

\* The running average is None before the first sample: <<>> is None and
\* <<v>> is the integer v.
None == << >>

\* A mutant of EmaBody: the first sample does not seed the average.
EmaBodyUnseeded(avg, x, sh) == IF avg = None THEN Asr(x, sh) ELSE Wrap(avg[1] + Asr(Wrap(x - avg[1]), sh))

\* The body of the for loop of ema_q16: the new average.
EmaBody(avg, x, sh) == IF avg = None THEN x ELSE Wrap(avg[1] + Asr(Wrap(x - avg[1]), sh))

RECURSIVE EmaLoop(_, _, _, _, _)
EmaLoop(q16_prices, alpha_sh, i, avg, out) ==
    IF i > Len(q16_prices) THEN out
    ELSE LET a == EmaBody(avg, q16_prices[i], alpha_sh)
         IN  EmaLoop(q16_prices, alpha_sh, i + 1, <<a>>, Append(out, a))

\* ema_q16(q16_prices, alpha_sh): the averages after each price.
ema_q16(q16_prices, alpha_sh) == EmaLoop(q16_prices, alpha_sh, 1, None, << >>)

\* ------------------------------------------------------ check_match ---
VARIABLES
    pc,          \* where main stands: "read_csv", "read_hw_log", "merge", "done"
    q16_prices,  \* main: the price_q16 column of ticks.csv
    fast,        \* main: ema_q16(q16_prices, FAST_SH)
    slow,        \* main: ema_q16(q16_prices, SLOW_SH)
    sw,          \* main: the software trace, rows [tick, sw_sig]
    hw_log,      \* the lines of hw_log.txt
    hw,          \* main: the hardware trace, rows [tick, hw_sig]
    merged,      \* main: rows [tick, hw_sig, sw_sig]
    mismatches,  \* main: the rows of merged whose match is 0
    stdout,      \* what the run printed
    exit_code    \* the exit status of the process, read when pc = "done"

mainVars == <<pc, q16_prices, fast, slow, sw, hw_log, hw, merged, mismatches, stdout, exit_code>>

VARIABLES
    alpha_sh,    \* ema_q16: the shift
    avg,         \* ema_q16: the running average, None before the first sample
    prev,        \* the running average before the last sample
    x,           \* ema_q16: the last sample
    n,           \* how many samples the loop has taken, counted up to MaxTicks
    lo,          \* the smallest sample so far
    hi,          \* the largest sample so far
    a0,          \* SpecHold: the average when the constant input began
    held         \* SpecHold: the constant input, None before it begins

emaVars == <<alpha_sh, avg, prev, x, n, lo, hi, a0, held>>

vars == <<mainVars, emaVars>>

BUY == 1
SELL == -1
HOLD == 0

Min(a, b) == IF a <= b THEN a ELSE b
Max(a, b) == IF a >= b THEN a ELSE b

\* df.head(k)
Head_(s, k) == SubSeq(s, 1, Min(k, Len(s)))

\* A mutant of Classify: a tie of the two averages is a BUY.
ClassifyTieBuys(f, s) == IF f >= s THEN BUY ELSE SELL

\* The body of the zip loop of main: the signal of one tick.
Classify(f, s) == IF f > s THEN BUY ELSE IF f < s THEN SELL ELSE HOLD

\* sw_sig of main for the two shifts given.
SwSig(prices, fast_sh, slow_sh) ==
    LET f == ema_q16(prices, fast_sh)
        s == ema_q16(prices, slow_sh)
    IN  [t \in 1 .. Min(Len(f), Len(s)) |-> Classify(f[t], s[t])]

\* The DataFrame sw of main: tick = range(1, len(sw_sig) + 1).
SwFrame(sw_sig) == [t \in 1 .. Len(sw_sig) |-> [tick |-> t, sw_sig |-> sw_sig[t]]]

\* A line of hw_log.txt. text = "tick" is a line the pattern
\* tick\s+(\d+)\s*->\s*signal=(\d+) finds a match in, with the two numbers
\* it captures; text = "other" is any line it finds no match in.
OtherLine == [text |-> "other", tick |-> 0, code |-> 0]
Lines == {OtherLine} \cup [text : {"tick"}, tick : LogTicks, code : Codes]

RECURSIVE SeqsUpTo(_, _)
SeqsUpTo(S, k) ==
    IF k = 0 THEN {<< >>}
    ELSE LET shorter == SeqsUpTo(S, k - 1)
         IN  shorter \cup {Append(q, e) : q \in {r \in shorter : Len(r) = k - 1}, e \in S}

\* re.search(...) is not None
Matches(line) == line.text = "tick"

\* A mutant of DecodeSignal: code 2 is taken for a SELL as well.
DecodeSignalHighBit(s) == IF s >= 2 THEN SELL ELSE IF s = 1 THEN BUY ELSE HOLD

\* The if/elif/else of read_hw_log on the signal code.
DecodeSignal(s) == IF s = 3 THEN SELL ELSE IF s = 1 THEN BUY ELSE HOLD

\* The for loop of read_hw_log: one row per matching line, in file order.
RECURSIVE ParseRows(_, _, _)
ParseRows(lines, i, rows) ==
    IF i > Len(lines) THEN rows
    ELSE IF Matches(lines[i])
         THEN ParseRows(lines, i + 1,
                        Append(rows, [tick |-> lines[i].tick, hw_sig |-> DecodeSignal(lines[i].code)]))
         ELSE ParseRows(lines, i + 1, rows)

\* A mutant of drop_duplicates: keep="last".
drop_duplicates_keep_last(rows) ==
    LET keep(i) == \A j \in (i + 1) .. Len(rows) : rows[j].tick # rows[i].tick
        F[i \in 0 .. Len(rows)] ==
            IF i = 0 THEN << >>
            ELSE IF keep(i) THEN Append(F[i - 1], rows[i]) ELSE F[i - 1]
    IN  F[Len(rows)]

\* DataFrame.drop_duplicates("tick"): keep="first", the rows stay in order.
drop_duplicates(rows) ==
    LET keep(i) == \A j \in 1 .. (i - 1) : rows[j].tick # rows[i].tick
        F[i \in 0 .. Len(rows)] ==
            IF i = 0 THEN << >>
            ELSE IF keep(i) THEN Append(F[i - 1], rows[i]) ELSE F[i - 1]
    IN  F[Len(rows)]

\* read_hw_log on a file that opens.
read_hw_log(lines) == drop_duplicates(ParseRows(lines, 1, << >>))

\* A mutant of pd_merge: a left join, the missing sw_sig filled with HOLD.
pd_merge_left(left, right) ==
    [i \in 1 .. Len(left) |->
        [tick |-> left[i].tick, hw_sig |-> left[i].hw_sig,
         sw_sig |-> IF left[i].tick \in 1 .. Len(right) THEN right[left[i].tick].sw_sig ELSE HOLD]]

\* pd.merge(hw, sw, on="tick", how="inner"): for every row of the left frame,
\* in the order of the left frame, its pairing with every row of the right
\* frame that has the same tick. No row is sorted.
pd_merge(left, right) ==
    LET pairs(i) ==
            LET G[j \in 0 .. Len(right)] ==
                    IF j = 0 THEN << >>
                    ELSE IF right[j].tick = left[i].tick
                         THEN Append(G[j - 1], [tick |-> left[i].tick, hw_sig |-> left[i].hw_sig,
                                                sw_sig |-> right[j].sw_sig])
                         ELSE G[j - 1]
            IN  G[Len(right)]
        F[i \in 0 .. Len(left)] == IF i = 0 THEN << >> ELSE F[i - 1] \o pairs(i)
    IN  F[Len(left)]

\* merged["match"]: 1 where the two signals are equal.
MatchCol(m) == [i \in 1 .. Len(m) |-> IF m[i].hw_sig = m[i].sw_sig THEN 1 ELSE 0]

RECURSIVE SumSeq(_)
SumSeq(s) == IF s = << >> THEN 0 ELSE s[1] + SumSeq(Tail(s))

\* merged["match"].mean() * 100 as f"{acc:.2f}" prints it, in hundredths of a
\* percent: the quotient rounded to the nearest hundredth, a tie to the even
\* one (a tie is a binary fraction, which the float holds exactly).
Acc(m) ==
    LET num == 10000 * SumSeq(MatchCol(m))
        den == Len(m)
        q   == num \div den
        r   == num % den
    IN  IF 2 * r > den \/ (2 * r = den /\ q % 2 = 1) THEN q + 1 ELSE q

\* merged[merged["match"] == 0]
Mismatches(m) == SelectSeq(m, LAMBDA row : row.hw_sig # row.sw_sig)

NoOutput == [diag |-> "", report |-> FALSE, ticks_compared |-> 0, match_rate |-> 0,
             n_mismatches |-> 0, first_mismatches |-> << >>, sample |-> << >>]

MainInit ==
    /\ pc = "read_csv"
    /\ q16_prices = << >>
    /\ fast = << >>
    /\ slow = << >>
    /\ sw = << >>
    /\ hw_log = << >>
    /\ hw = << >>
    /\ merged = << >>
    /\ mismatches = << >>
    /\ stdout = NoOutput
    /\ exit_code = 0

\* main, lines 59-78: read the prices, build the software trace.
ComputeSw ==
    /\ pc = "read_csv"
    /\ \E prices \in SeqsUpTo(PriceSet, MaxPrices) :
          /\ q16_prices' = prices
          /\ fast' = ema_q16(prices, FAST_SH)
          /\ slow' = ema_q16(prices, SLOW_SH)
          /\ sw' = SwFrame(SwSig(prices, FAST_SH, SLOW_SH))
    /\ pc' = "read_hw_log"
    /\ UNCHANGED <<hw_log, hw, merged, mismatches, stdout, exit_code>>
    /\ UNCHANGED emaVars

\* main, line 81, read_hw_log returning: the file opens and is parsed.
ReadHwLog ==
    /\ pc = "read_hw_log"
    /\ \E lines \in SeqsUpTo(Lines, MaxLines) :
          /\ hw_log' = lines
          /\ hw' = read_hw_log(lines)
    /\ pc' = "merge"
    /\ UNCHANGED <<q16_prices, fast, slow, sw, merged, mismatches, stdout, exit_code>>
    /\ UNCHANGED emaVars

\* read_hw_log, lines 49-53: the file does not open; sys.exit(1).
ReadHwLogNotFound ==
    /\ pc = "read_hw_log"
    /\ stdout' = [stdout EXCEPT !.diag = "Error: hw_log.txt not found."]
    /\ exit_code' = 1
    /\ pc' = "done"
    /\ UNCHANGED <<q16_prices, fast, slow, sw, hw_log, hw, merged, mismatches>>
    /\ UNCHANGED emaVars

\* main, lines 84-89: the merge is empty; a message and a plain return.
NoOverlap ==
    /\ pc = "merge"
    /\ Len(pd_merge(hw, sw)) = 0
    /\ merged' = pd_merge(hw, sw)
    /\ stdout' = [stdout EXCEPT !.diag = "No overlapping ticks found between HW and SW."]
    /\ pc' = "done"
    /\ UNCHANGED <<q16_prices, fast, slow, sw, hw_log, hw, mismatches, exit_code>>
    /\ UNCHANGED emaVars

\* main, lines 84-112: the merge, the match rate, the report.
Report ==
    /\ pc = "merge"
    /\ Len(pd_merge(hw, sw)) # 0
    /\ LET m == pd_merge(hw, sw)
       IN  /\ merged' = m
           /\ mismatches' = Mismatches(m)
           /\ stdout' = [stdout EXCEPT !.report = TRUE,
                                       !.ticks_compared = Len(m),
                                       !.match_rate = Acc(m),
                                       !.n_mismatches = Len(Mismatches(m)),
                                       !.first_mismatches = Head_(Mismatches(m), 10),
                                       !.sample = Head_(m, 12)]
    /\ pc' = "done"
    /\ UNCHANGED <<q16_prices, fast, slow, sw, hw_log, hw, exit_code>>
    /\ UNCHANGED emaVars


\* ---------------------------------------------------- the ema_q16 loop ---
EmaInit ==
    /\ alpha_sh \in Shifts
    /\ avg = None
    /\ prev = None
    /\ x = 0
    /\ n = 0
    /\ lo = 0
    /\ hi = 0
    /\ a0 = 0
    /\ held = None

\* One iteration of the for loop of ema_q16 on the sample v.
Update(v) ==
    /\ avg' = <<EmaBody(avg, v, alpha_sh)>>
    /\ prev' = avg
    /\ x' = v
    /\ n' = IF n < MaxTicks THEN n + 1 ELSE n
    /\ lo' = IF n = 0 THEN v ELSE Min(lo, v)
    /\ hi' = IF n = 0 THEN v ELSE Max(hi, v)
    /\ UNCHANGED alpha_sh

\* The loop takes the next price of a sequence of at most MaxTicks prices.
Feed ==
    /\ n < MaxTicks
    /\ \E v \in Word : Update(v)
    /\ UNCHANGED <<a0, held>>
    /\ UNCHANGED mainVars

\* The first sample of a run whose input is later held constant.
Seed ==
    /\ avg = None
    /\ \E v \in Word : Update(v)
    /\ UNCHANGED <<a0, held>>
    /\ UNCHANGED mainVars

\* From the initialized state the input becomes the constant c.
HoldFirst ==
    /\ avg # None
    /\ held = None
    /\ \E c \in Word :
          /\ held' = <<c>>
          /\ Update(c)
    /\ a0' = avg[1]
    /\ UNCHANGED mainVars

\* The input stays at the constant.
HoldAgain ==
    /\ held # None
    /\ Update(held[1])
    /\ UNCHANGED <<a0, held>>
    /\ UNCHANGED mainVars

\* ------------------------------------------------------ specifications ---
\* One run of check_match.main; no ema_q16 loop of SpecEma is running.
Init == MainInit /\ EmaInit /\ alpha_sh = FAST_SH

Next == ComputeSw \/ ReadHwLog \/ ReadHwLogNotFound \/ NoOverlap \/ Report

Spec == Init /\ [][Next]_vars

InitEma == MainInit /\ EmaInit

NextEma == Feed

SpecEma == InitEma /\ [][NextEma]_vars

NextHold == Seed \/ HoldFirst \/ HoldAgain

\* ema_q16 is a plain loop: while a sample is left it takes it.
SpecHold == InitEma /\ [][NextHold]_vars /\ WF_vars(NextHold)

\* ============================================================== claims ===
FitsWord(v) == MinWord <= v /\ v <= MaxWord

\* ------------------------------------------------------------------ C1 ---
\* C1: in ema_q16 the first output is the first price, and every later
\* output is avg + floor((x - avg) / 2^shift), the quotient rounded toward
\* negative infinity also for a negative x - avg, as long as x - avg does not
\* overflow the word. The floor q of d / 2^shift is stated by what defines
\* it: q * 2^shift <= d < (q + 1) * 2^shift.
C1_FloorRecurrence ==
    /\ n = 1 => avg[1] = x
    /\ (n >= 2 /\ FitsWord(x - prev[1])) =>
          LET d == x - prev[1]
              q == avg[1] - prev[1]
          IN  q * Pow2(alpha_sh) <= d /\ d < (q + 1) * Pow2(alpha_sh)

\* A later tick with a negative delta that is no multiple of 2^shift: floor
\* and truncation differ there.
C1_Witness ==
    /\ n >= 2
    /\ alpha_sh >= 1
    /\ x - prev[1] < 0
    /\ FitsWord(x - prev[1])
    /\ (x - prev[1]) % Pow2(alpha_sh) # 0
    /\ avg[1] < prev[1]

\* ------------------------------------------------------------------ C2 ---
\* The trace tr is the one the claim describes for the prices and the two
\* shifts: one row per price, the rows' ticks are 1 .. N, and the row of
\* tick t holds the comparison of the two averages after the first t prices.
TraceOk(tr, prices, fs, ss) ==
    /\ Len(tr) = Len(prices)
    /\ {tr[i].tick : i \in 1 .. Len(tr)} = 1 .. Len(prices)
    /\ \A t \in 1 .. Len(tr) :
          LET f  == ema_q16(SubSeq(prices, 1, t), fs)[t]
              sl == ema_q16(SubSeq(prices, 1, t), ss)[t]
              r  == tr[t]
          IN  /\ r.tick = t
              /\ r.sw_sig \in {BUY, SELL, HOLD}
              /\ r.sw_sig = BUY <=> f > sl
              /\ r.sw_sig = SELL <=> f < sl
              /\ r.sw_sig = HOLD <=> f = sl

\* C2: for a price sequence of length N >= 1 the software trace of main has
\* exactly the ticks 1 .. N, and its entry at tick t is BUY when the fast
\* average after t prices is above the slow one, SELL when below, HOLD
\* exactly when the two are equal; the same for every pair of shifts. The
\* trace is looked at where main has just built it.
C2_SoftwareTraceDense ==
    (pc = "read_hw_log" /\ Len(q16_prices) >= 1) =>
        /\ TraceOk(sw, q16_prices, FAST_SH, SLOW_SH)
        /\ \A fs \in Shifts, ss \in Shifts :
              TraceOk(SwFrame(SwSig(q16_prices, fs, ss)), q16_prices, fs, ss)

\* A trace of two ticks: a tie at the first, a SELL at the second.
C2_Witness ==
    /\ pc = "read_hw_log"
    /\ Len(q16_prices) = 2
    /\ Len(sw) = 2
    /\ sw[1].sw_sig = HOLD
    /\ sw[2].sw_sig = SELL

\* ------------------------------------------------------------------ C3 ---
\* The indices of the lines of the log that carry a tick record.
MatchingLines == {i \in 1 .. Len(hw_log) : hw_log[i].text = "tick"}

\* The first line of the log that carries the tick t.
FirstLineOf(t) ==
    CHOOSE i \in MatchingLines :
        /\ hw_log[i].tick = t
        /\ \A j \in MatchingLines : hw_log[j].tick = t => i <= j

\* C3: the trace read_hw_log returns has exactly one entry per distinct tick
\* of a matching line, holding the decoding (1 is BUY, 3 is SELL, any other
\* code is HOLD) of the first matching line of that tick; lines that do not
\* match add nothing.
C3_FirstLinePerTick ==
    pc \in {"merge", "done"} =>
        /\ {hw[k].tick : k \in 1 .. Len(hw)} = {hw_log[i].tick : i \in MatchingLines}
        /\ Len(hw) = Cardinality({hw_log[i].tick : i \in MatchingLines})
        /\ \A k \in 1 .. Len(hw) :
              LET c == hw_log[FirstLineOf(hw[k].tick)].code
              IN  hw[k].hw_sig = IF c = 1 THEN 1 ELSE IF c = 3 THEN -1 ELSE 0

\* A log of a line without a record and two lines of one tick, the first a
\* BUY and the second a SELL: the trace is the one BUY entry.
C3_Witness ==
    /\ pc = "merge"
    /\ Len(hw_log) = 3
    /\ \E i \in 1 .. 3 : hw_log[i].text = "other"
    /\ \E i \in MatchingLines, j \in MatchingLines :
          /\ i < j
          /\ hw_log[i].tick = hw_log[j].tick
          /\ hw_log[i].code = 1
          /\ hw_log[j].code = 3
    /\ Len(hw) = 1
    /\ hw[1].hw_sig = BUY

\* ------------------------------------------------------------------ C4 ---
HwTicks == {hw[k].tick : k \in 1 .. Len(hw)}
SwTicks == {sw[k].tick : k \in 1 .. Len(sw)}
CommonTicks == HwTicks \cap SwTicks
HwAt(t) == hw[CHOOSE k \in 1 .. Len(hw) : hw[k].tick = t].hw_sig
SwAt(t) == sw[CHOOSE k \in 1 .. Len(sw) : sw[k].tick = t].sw_sig
MismatchTicks == {t \in CommonTicks : HwAt(t) # SwAt(t)}

\* C4: when the two traces share a tick the comparison is reported; it
\* compares exactly the shared ticks, each once and with the two traces'
\* signals; the mismatches are exactly the shared ticks whose signals
\* differ; matches + mismatches = compared; and the match rate printed is
\* matches / compared * 100 to the nearest hundredth.
C4_ComparesCommonTicks ==
    pc = "done" =>
        /\ CommonTicks # {} <=> stdout.report
        /\ stdout.report =>
              LET compared == Cardinality(CommonTicks)
                  matches  == Cardinality(CommonTicks \ MismatchTicks)
              IN  /\ {merged[i].tick : i \in 1 .. Len(merged)} = CommonTicks
                  /\ Len(merged) = compared
                  /\ stdout.ticks_compared = compared
                  /\ \A i \in 1 .. Len(merged) :
                        /\ merged[i].hw_sig = HwAt(merged[i].tick)
                        /\ merged[i].sw_sig = SwAt(merged[i].tick)
                  /\ {mismatches[i].tick : i \in 1 .. Len(mismatches)} = MismatchTicks
                  /\ Len(mismatches) = Cardinality(MismatchTicks)
                  /\ stdout.n_mismatches = Cardinality(MismatchTicks)
                  /\ \A i \in 1 .. Len(mismatches) :
                        /\ mismatches[i].hw_sig = HwAt(mismatches[i].tick)
                        /\ mismatches[i].sw_sig = SwAt(mismatches[i].tick)
                  /\ matches + stdout.n_mismatches = stdout.ticks_compared
                  /\ 2 * (stdout.match_rate * compared - 10000 * matches) <= compared
                  /\ 2 * (10000 * matches - stdout.match_rate * compared) <= compared

\* Three hardware ticks, two of them also software ticks: one matches, one
\* does not, and the third is in neither count.
C4_Witness ==
    /\ pc = "done"
    /\ stdout.report
    /\ Len(hw) = 3
    /\ Len(sw) = 2
    /\ stdout.ticks_compared = 2
    /\ stdout.n_mismatches = 1
    /\ stdout.match_rate = 5000

\* ------------------------------------------------------------------ C5 ---
Ascending(rows) == \A i \in 1 .. Len(rows), j \in 1 .. Len(rows) : i < j => rows[i].tick < rows[j].tick

\* C5: for every hardware log, also one whose tick lines are not in
\* ascending order, the mismatch records and the comparison table of the
\* report are in strictly ascending tick order.
C5_ReportAscending ==
    (pc = "done" /\ stdout.report) =>
        /\ Ascending(merged)
        /\ Ascending(mismatches)
        /\ Ascending(stdout.sample)
        /\ Ascending(stdout.first_mismatches)

\* ------------------------------------------------------------------ C6 ---
\* C6: with an empty price sequence the run fails with the diagnostic of
\* EmptyInputError before anything is compared: main never goes on to read
\* the hardware log or to merge with an empty software trace.
C6_EmptyInputFails ==
    (pc # "read_csv" /\ Len(q16_prices) = 0) =>
        /\ pc = "done"
        /\ stdout.diag = "EmptyInputError"
        /\ ~stdout.report
        /\ hw_log = << >>
        /\ exit_code # 0

\* ------------------------------------------------------------------ C7 ---
\* The run ended in one of the failure conditions: the log did not open,
\* the log has no matching line, or the two traces share no tick.
EndedInFailure ==
    /\ pc = "done"
    /\ \/ stdout.diag = "Error: hw_log.txt not found."
       \/ MatchingLines = {}
       \/ CommonTicks = {}

\* C7: a run that ends in a failure condition prints a diagnostic, prints no
\* parity report and exits with a non-zero status.
C7_FailureExitsNonZero ==
    EndedInFailure =>
        /\ stdout.diag # ""
        /\ ~stdout.report
        /\ exit_code # 0

\* ------------------------------------------------------------------ C8 ---
ConstSeq(c, k) == [t \in 1 .. k |-> c]

\* C8: while every price fed so far is the same constant c, the average is
\* c, at the first tick and at every later one, for every shift; and for
\* every pair of shifts the software signal of that constant sequence is
\* HOLD at every tick.
C8_ConstantInputStays ==
    (n >= 1 /\ lo = hi) =>
        /\ avg[1] = lo
        /\ \A fs \in Shifts, ss \in Shifts :
              LET sig == SwSig(ConstSeq(lo, n), fs, ss)
              IN  Len(sig) = n /\ \A t \in 1 .. n : sig[t] = HOLD

\* Three ticks of one non-zero constant under a shift that is not 0.
C8_Witness ==
    /\ n = MaxTicks
    /\ lo = hi
    /\ lo # 0
    /\ alpha_sh >= 1
    /\ avg[1] = lo

\* ------------------------------------------------------------------ C9 ---
\* C9, as the claim states it: after every update the new average lies
\* between the old average and the input, for every word a and x.
C9_NeverOvershoots ==
    n >= 2 => Min(prev[1], x) <= avg[1] /\ avg[1] <= Max(prev[1], x)

\* C9, amended: when x - a does not overflow the word, the new average lies
\* between the old average a and the input x; and when the prices fed so far
\* span no more than the largest word, every output lies between the
\* smallest and the largest of them.
C9_NeverOvershootsInRange ==
    /\ (n >= 2 /\ FitsWord(x - prev[1])) =>
          Min(prev[1], x) <= avg[1] /\ avg[1] <= Max(prev[1], x)
    /\ (n >= 1 /\ hi - lo <= MaxWord) => lo <= avg[1] /\ avg[1] <= hi

\* An update that moved the average strictly between the old average and
\* the input, on the third price.
C9_Witness ==
    /\ n = 3
    /\ alpha_sh >= 1
    /\ FitsWord(x - prev[1])
    /\ hi - lo <= MaxWord
    /\ prev[1] < avg[1]
    /\ avg[1] < x
    /\ lo < avg[1]

\* ----------------------------------------------------------------- C10 ---
\* C10, as the claim states it, in the part a finite run decides: with the
\* input held at x from an average a < x and a shift >= 1 the average stays
\* strictly below x; and an average that no longer moves lies in
\* [x - (2^shift - 1), x], and is x itself when a >= x or the shift is 0.
C10_HeldInputAnyWord ==
    held # None =>
        /\ (a0 < held[1] /\ alpha_sh >= 1) => avg[1] < held[1]
        /\ (prev = avg) =>
              /\ held[1] - (Pow2(alpha_sh) - 1) <= avg[1]
              /\ avg[1] <= held[1]
              /\ (a0 >= held[1] \/ alpha_sh = 0) => avg[1] = held[1]

\* The input x is held and x - a does not overflow the word.
HeldInRange == held # None /\ FitsWord(held[1] - a0)

\* The average has stopped at a value v with x - (2^shift - 1) <= v <= x,
\* which is x when a >= x or the shift is 0.
Settled ==
    /\ prev = avg
    /\ held[1] - (Pow2(alpha_sh) - 1) <= avg[1]
    /\ avg[1] <= held[1]
    /\ (a0 >= held[1] \/ alpha_sh = 0) => avg[1] = held[1]

\* C10, amended: when x - a does not overflow the word and the input is held
\* at x for ever, the average eventually stays at a value v with
\* x - (2^shift - 1) <= v <= x, which is x when a >= x or the shift is 0;
\* from a < x with a shift >= 1 it is always strictly below x, and it no
\* longer moves once 0 < x - avg < 2^shift.
C10_HeldInputConverges ==
    /\ [](HeldInRange /\ a0 < held[1] /\ alpha_sh >= 1 => avg[1] < held[1])
    /\ [][(HeldInRange /\ 0 < held[1] - avg[1] /\ held[1] - avg[1] < Pow2(alpha_sh))
            => avg' = avg]_vars
    /\ HeldInRange ~> [](HeldInRange /\ Settled)

\* The average rose from a < x and stopped strictly below x.
C10_Witness ==
    /\ HeldInRange
    /\ alpha_sh >= 1
    /\ a0 < held[1] - Pow2(alpha_sh)
    /\ prev = avg
    /\ a0 < avg[1]
    /\ avg[1] < held[1]

====
